---- MODULE Spec2Model ----
(***************************************************************************)
(* Membership / attendance backend: the kiosk check-in transaction         *)
(* (attendance/views.py), the Attendance model with its save() override    *)
(* and its declared uniqueness constraint (attendance/models.py), the      *)
(* expiry functions (utils/payments.py) and the administrative write paths *)
(* on Attendance, Payment and Member rows.                                 *)
(*                                                                         *)
(* Dates are day ordinals counted from 1 January 2024 (ordinal 0).  A      *)
(* Python value that is either a datetime.date or a datetime.datetime is a *)
(* record [ty, d]: the type tag decides whether a comparison is defined    *)
(* (Python raises TypeError when a date is compared with a datetime).      *)
(* Attendance.attended_at is a calendar day; the lookups written           *)
(* attended_at__date and the call attended_at.date() denote that day.      *)
(***************************************************************************)
EXTENDS Integers, Sequences, FiniteSets, TLC

(***************************************************************************)
(* Bounds of the model.                                                    *)
(***************************************************************************)
MaxTicks ==
    1

MaxAttendance ==
    2

MaxPayments ==
    1

PayGap ==
    5

MaxCosts ==
    1

MaxRuns ==
    2

StartDay ==
    59

(***************************************************************************)
(* Program constants.                                                      *)
(***************************************************************************)
VisitCap ==
    12

MonthlyDays ==
    30

PinLength ==
    4

OldAge ==
    35

DefaultThreshold ==
    3

VisitsLeftWarn ==
    3

MemberIds ==
    {1, 2}

Procs ==
    {1, 2}

SeqProcs ==
    {1}

PlanTypes ==
    {"Oylik", "Premium", "Kunlik"}

(***************************************************************************)
(* The calendar (datetime.date and calendar.monthrange).                   *)
(***************************************************************************)
IsLeap(y) ==
    (y % 4 = 0 /\ y % 100 # 0) \/ (y % 400 = 0)

MonthRange(y, m) ==
    IF m = 2 THEN (IF IsLeap(y) THEN 29 ELSE 28)
    ELSE IF m \in {4, 6, 9, 11} THEN 30 ELSE 31

RECURSIVE YMDFrom(_, _, _)
YMDFrom(n, y, m) ==
    IF n < MonthRange(y, m)
    THEN [year |-> y, month |-> m, day |-> n + 1]
    ELSE YMDFrom(n - MonthRange(y, m),
                 IF m = 12 THEN y + 1 ELSE y,
                 IF m = 12 THEN 1 ELSE m + 1)

ToYMD(n) ==
    YMDFrom(n, 2024, 1)

RECURSIVE DaysBefore(_, _)
DaysBefore(y, m) ==
    IF y = 2024 /\ m = 1 THEN 0
    ELSE IF m = 1 THEN DaysBefore(y - 1, 12) + MonthRange(y - 1, 12)
    ELSE DaysBefore(y, m - 1) + MonthRange(y, m - 1)

ToOrdinal(y, m, d) ==
    DaysBefore(y, m) + d - 1

(***************************************************************************)
(* Python values: date, datetime, None, and the results of expressions     *)
(* that may raise.                                                         *)
(***************************************************************************)
PyDate(n) ==
    [ty |-> "date", d |-> n]

PyDateTime(n) ==
    [ty |-> "datetime", d |-> n]

PyGt(a, b) ==
    IF a.ty # b.ty THEN "TypeError"
    ELSE IF a.d > b.d THEN "True" ELSE "False"

PyNone ==
    <<"None">>

Digits ==
    {"0", "1", "2", "3", "4", "5", "6", "7", "8", "9"}

Pin1 ==
    <<"1", "2", "3", "4">>

Pin2 ==
    <<"5", "6", "7", "8">>

PinInputs ==
    { PyNone, <<>>, <<"1", "2">>, <<"1", "2", "3", "4", "5">>,
      <<"a", "b", "c", "d">>, <<"9", "9", "9", "9">>, Pin1, Pin2 }

NoDate ==
    0 - 1

NoMember ==
    0

\* times of day of a datetime
Midnight ==
    "00:00"

Noon ==
    "12:00"

NoCall ==
    [fn |-> "-"]

VARIABLES
    today,        \* local calendar day: date.today()
    utcLag,       \* timezone.now().date() = today - utcLag
    dbEnforces,   \* the storage honours Meta.constraints of Attendance
    members,      \* Member rows
    payments,     \* Payment rows
    attendance,   \* Attendance rows
    req,          \* the check-in requests in flight, one per worker
    snap,         \* the rows as they were when a request was received
    costs,        \* Costs rows
    subscriptions,\* Subscription rows
    reports,      \* DailyReport and MonthlyReport rows
    calc,         \* the last call of a utility or of the report command
    debts,        \* Debt rows
    clubs         \* FitnessClub rows and the sequence of their ids

vars ==
    <<today, utcLag, dbEnforces, members, payments, attendance, req, snap,
      costs, subscriptions, reports, calc, debts, clubs>>

storage ==
    <<attendance, payments, members>>

\* the tables and the call record that the kiosk and the desk never write
reporting ==
    <<costs, subscriptions, reports, calc, debts, clubs>>

(***************************************************************************)
(* Rows and query sets.                                                    *)
(***************************************************************************)
NoPk ==
    0

\* Payment.objects / member.payments: ActiveManager keeps state=True only
MemberPayments(m) ==
    {p \in payments : p.member = m /\ p.state}

\* member.attendances: AttendanceManager keeps state=True only
MemberAttendances(m) ==
    {a \in attendance : a.member = m /\ a.state}

\* the payment recorded first instead of the latest one
LastPayment_FirstRecorded(m) ==
    IF MemberPayments(m) = {} THEN [id |-> NoPk]
    ELSE CHOOSE p \in MemberPayments(m) :
           \A q \in MemberPayments(m) : p.id <= q.id

\* member.payments.order_by('-date').first()
LastPayment(m) ==
    LET rows == MemberPayments(m) IN
    IF rows = {} THEN [id |-> NoPk]
    ELSE CHOOSE p \in rows : \A q \in rows : q.date <= p.date

(***************************************************************************)
(* utils/payments.py                                                       *)
(***************************************************************************)
\* the anchor: last_payment.date (a datetime) or member.created_at.date()
BaseDate(m) ==
    LET last_payment == LastPayment(m) IN
    IF last_payment.id # NoPk
    THEN PyDateTime(last_payment.date)
    ELSE PyDate(members[m].created_at)

\* every month taken to have thirty days
LastDayOfMonth_Day30(n) ==
    ToOrdinal(ToYMD(n).year, ToYMD(n).month, MonthlyDays)

LastDayOfMonth(n) ==
    LET day == ToYMD(n) IN
    ToOrdinal(day.year, day.month, MonthRange(day.year, day.month))

get_expiry_date(m) ==
    LET base_date == BaseDate(m) IN
    IF members[m].payment_type = "Oylik"
    THEN [base_date EXCEPT !.d = @ + MonthlyDays]
    ELSE IF members[m].payment_type = "Premium"
    THEN PyDate(LastDayOfMonth(base_date.d))
    ELSE IF members[m].payment_type = "Kunlik"
    THEN base_date
    ELSE [base_date EXCEPT !.d = @ + MonthlyDays]

\* a count that leaves out the day of expiry
attend_count_BeforeExpiry(m) ==
    LET start_date == BaseDate(m).d
        expiry == get_expiry_date(m).d IN
    Cardinality({a \in MemberAttendances(m) :
                    /\ a.attended_at >= start_date
                    /\ a.attended_at < expiry})

\* attendances dated within [start_date, expiry], both coerced to days
attend_count(m) ==
    LET start_date == BaseDate(m).d
        expiry == get_expiry_date(m).d IN
    Cardinality({a \in MemberAttendances(m) :
                    /\ a.attended_at >= start_date
                    /\ a.attended_at <= expiry})

\* a classification by the date alone
is_expired_NoCap(m, as_of_date) ==
    IF members[m].payment_type \in {"Oylik", "Premium", "Kunlik"}
    THEN PyGt(as_of_date, get_expiry_date(m))
    ELSE "False"

\* "True", "False", or "TypeError" when date and datetime are compared
is_expired(m, as_of_date) ==
    LET expiry == get_expiry_date(m) IN
    IF members[m].payment_type = "Oylik"
    THEN IF attend_count(m) >= VisitCap THEN "True"
         ELSE PyGt(as_of_date, expiry)
    ELSE IF members[m].payment_type = "Premium"
    THEN PyGt(as_of_date, expiry)
    ELSE IF members[m].payment_type = "Kunlik"
    THEN PyGt(as_of_date, expiry)
    ELSE "False"

\* (expiry - as_of_date).days: Python subtracts a date from a date and a
\* datetime from a datetime, and raises TypeError for a mixed pair
PySubRaises(a, b) ==
    a.ty # b.ty

PyDays(a, b) ==
    a.d - b.d

PyBool(b) ==
    IF b THEN "True" ELSE "False"

\* the function without its first check, `if is_expired(...): return False`
is_expiring_soon_NoExpiredCheck(m, threshold_days, as_of_date) ==
    LET expiry == get_expiry_date(m)
        days_left == PyDays(expiry, as_of_date)
        visits_left == VisitCap - attend_count(m) IN
    IF PySubRaises(expiry, as_of_date) THEN "TypeError"
    ELSE IF members[m].payment_type = "Oylik"
    THEN PyBool((0 <= days_left /\ days_left <= threshold_days)
                 \/ visits_left <= VisitsLeftWarn)
    ELSE IF members[m].payment_type = "Premium"
    THEN PyBool(0 <= days_left /\ days_left <= threshold_days)
    ELSE IF members[m].payment_type = "Kunlik"
    THEN PyBool(days_left = 0)
    ELSE "False"

\* "True", "False", or "TypeError"
is_expiring_soon(m, threshold_days, as_of_date) ==
    LET expiry == get_expiry_date(m)
        days_left == PyDays(expiry, as_of_date)
        visits_left == VisitCap - attend_count(m)
        expired == is_expired(m, as_of_date) IN
    IF PySubRaises(expiry, as_of_date) THEN "TypeError"
    ELSE IF expired = "TypeError" THEN "TypeError"
    ELSE IF expired = "True" THEN "False"
    ELSE IF members[m].payment_type = "Oylik"
    THEN PyBool((0 <= days_left /\ days_left <= threshold_days)
                 \/ visits_left <= VisitsLeftWarn)
    ELSE IF members[m].payment_type = "Premium"
    THEN PyBool(0 <= days_left /\ days_left <= threshold_days)
    ELSE IF members[m].payment_type = "Kunlik"
    THEN PyBool(days_left = 0)
    ELSE "False"

(***************************************************************************)
(* attendance/models.py: Attendance.save and the declared constraint       *)
(***************************************************************************)
\* the check written in save(): active rows of the same member on the day
\* of self.attended_at; an instance that was never saved has no
\* attended_at yet (auto_now_add fills it in later), so the filter is on
\* None and matches no row
SaveDuplicate(a) ==
    /\ a.state
    /\ a.member # NoMember
    /\ \E r \in attendance :
          /\ r.member = a.member
          /\ r.state
          /\ a.attended_at # NoDate
          /\ r.attended_at = a.attended_at
          /\ (a.id # NoPk => r.id # a.id)

\* UniqueConstraint(fields=['member'], condition=Q(state=True),
\* include=['attended_at']): the key of the index is member alone
ConstraintViolated(a) ==
    /\ dbEnforces
    /\ a.state
    /\ \E r \in attendance :
          /\ r.id # a.id
          /\ r.state
          /\ r.member = a.member

SaveOutcome(a) ==
    IF SaveDuplicate(a) THEN "ValidationError"
    ELSE IF ConstraintViolated(a) THEN "IntegrityError"
    ELSE "ok"

\* the row as written: a new row gets a key and attended_at = date.today()
Stored(a) ==
    IF a.id = NoPk
    THEN [a EXCEPT !.id = Cardinality(attendance) + 1, !.attended_at = today]
    ELSE a

AttendanceSave(a) ==
    attendance' =
         IF SaveOutcome(a) = "ok"
         THEN {r \in attendance : r.id # a.id} \cup {Stored(a)}
         ELSE attendance

NewAttendance(m, code) ==
    [id |-> NoPk, member |-> m, attended_at |-> NoDate, state |-> TRUE,
     code_used |-> code]

(***************************************************************************)
(* attendance/views.py: CheckInAPIView.post, one action per query          *)
(***************************************************************************)
NoResp ==
    [status |-> 0, error |-> ""]

InvalidInput ==
    [status |-> 400, error |-> "PIN kod 4 raqamli bo'lishi shart"]

NotFound ==
    [status |-> 404, error |-> "Bunday a'zo topilmadi yoki faol emas"]

PlanExpired ==
    [status |-> 400, error |-> "A'zolik muddati tugagan"]

DuplicateCheckIn ==
    [status |-> 400, error |-> "Bugun allaqachon kirilgan"]

Created ==
    [status |-> 201, error |-> ""]

ServerError(e) ==
    [status |-> 500, error |-> e]

IdleReq ==
    [pc |-> "idle", pin |-> PyNone, member |-> NoMember, resp |-> NoResp,
     checks |-> <<>>, reads |-> 0, wrote |-> 0, matched |-> "-",
     integrity |-> FALSE]

NoSnap ==
    <<{}, {}, <<>>>>

Finish(r, resp) ==
    [r EXCEPT !.pc = "done", !.resp = resp]

\* lines 56-62: not code or len(code) != 4
BadFormat(code) ==
    code = PyNone \/ code = <<>> \/ Len(code) # PinLength

Post(p, code) ==
    /\ req[p].pc = "idle"
    /\ Cardinality({a \in attendance : a.attended_at >= StartDay})
          < MaxAttendance
    /\ LET r == [IdleReq EXCEPT !.pin = code, !.checks = <<"format">>] IN
       req' = [req EXCEPT ![p] =
                 IF BadFormat(code) THEN Finish(r, InvalidInput)
                 ELSE [r EXCEPT !.pc = "lookup"]]
    /\ snap' = [snap EXCEPT ![p] = storage]
    /\ UNCHANGED <<reporting, today, utcLag, dbEnforces, members, payments, attendance>>

\* a lookup that forgets the state filter
MemberGet_AnyState(code) ==
    {m \in MemberIds : members[m].pin_code = code}

\* lines 64-71: Member.objects.get(pin_code=code, state=True)
MemberGet(code) ==
    {m \in MemberIds : members[m].pin_code = code /\ members[m].state}

\* what the PIN presented names in the Member table
Matched(code) ==
    IF \E m \in MemberIds : members[m].pin_code = code /\ members[m].state
    THEN "active"
    ELSE IF \E m \in MemberIds : members[m].pin_code = code THEN "inactive"
    ELSE "none"

Lookup(p) ==
    /\ req[p].pc = "lookup"
    /\ LET r == [req[p] EXCEPT !.checks = Append(@, "member"),
                               !.reads = @ + 1,
                               !.matched = Matched(req[p].pin)] IN
       /\ req' = [req EXCEPT ![p] =
                    IF MemberGet(r.pin) = {} THEN Finish(r, NotFound)
                    ELSE [r EXCEPT !.pc = "expiry",
                                   !.member = CHOOSE m \in MemberGet(r.pin) : TRUE]]
    /\ UNCHANGED <<reporting, today, utcLag, dbEnforces, members, payments, attendance,
                   snap>>

\* lines 73-78: is_expired(member, as_of_date=date.today())
CheckExpired(p) ==
    /\ req[p].pc = "expiry"
    /\ LET r == [req[p] EXCEPT !.checks = Append(@, "eligibility"),
                               !.reads = @ + 1]
           e == is_expired(req[p].member, PyDate(today)) IN
       req' = [req EXCEPT ![p] =
                 IF e = "True" THEN Finish(r, PlanExpired)
                 ELSE IF e = "TypeError" THEN Finish(r, ServerError("TypeError"))
                 ELSE [r EXCEPT !.pc = "dup"]]
    /\ UNCHANGED <<reporting, today, utcLag, dbEnforces, members, payments, attendance,
                   snap>>

\* lines 80-91: today = timezone.now().date(); active row of that day exists
already_checked_in(m) ==
    \E a \in attendance :
       a.member = m /\ a.state /\ a.attended_at = today - utcLag

\* a handler that writes the row before it looks for today's row
CheckDuplicate_InsertFirst(p) ==
    /\ req[p].pc = "dup"
    /\ LET r == [req[p] EXCEPT !.checks = Append(@, "duplicate"),
                               !.reads = @ + 1] IN
       req' = [req EXCEPT ![p] =
                 IF already_checked_in(r.member) THEN Finish(r, DuplicateCheckIn)
                 ELSE [r EXCEPT !.pc = "respond", !.wrote = 1]]
    /\ attendance' = attendance \cup
                       {Stored(NewAttendance(req[p].member, req[p].pin))}
    /\ UNCHANGED <<reporting, today, utcLag, dbEnforces, members, payments, snap>>

CheckDuplicate(p) ==
    /\ req[p].pc = "dup"
    /\ LET r == [req[p] EXCEPT !.checks = Append(@, "duplicate"),
                               !.reads = @ + 1] IN
       req' = [req EXCEPT ![p] =
                 IF already_checked_in(r.member) THEN Finish(r, DuplicateCheckIn)
                 ELSE [r EXCEPT !.pc = "create"]]
    /\ UNCHANGED <<reporting, today, utcLag, dbEnforces, members, payments, attendance,
                   snap>>

\* line 94: Attendance.objects.create(member=member, code_used=code);
\* nothing around it catches what save() or the storage raises
Create(p) ==
    /\ req[p].pc = "create"
    /\ LET a == NewAttendance(req[p].member, req[p].pin) IN
       /\ AttendanceSave(a)
       /\ req' = [req EXCEPT ![p] =
                    IF SaveOutcome(a) = "ok"
                    THEN [req[p] EXCEPT !.pc = "respond", !.wrote = 1]
                    ELSE Finish([req[p] EXCEPT
                                   !.integrity = (SaveOutcome(a) = "IntegrityError")],
                                ServerError(SaveOutcome(a)))]
    /\ UNCHANGED <<reporting, today, utcLag, dbEnforces, members, payments, snap>>

\* lines 98-108: the body evaluates get_expiry_date and is_expired again
Respond(p) ==
    /\ req[p].pc = "respond"
    /\ req' = [req EXCEPT ![p] =
                 IF is_expired(req[p].member, PyDate(today)) = "TypeError"
                 THEN Finish(req[p], ServerError("TypeError"))
                 ELSE Finish(req[p], Created)]
    /\ UNCHANGED <<reporting, today, utcLag, dbEnforces, members, payments, attendance,
                   snap>>

\* the response has been delivered; the worker takes the next request
Ack(p) ==
    /\ req[p].pc = "done"
    /\ req' = [req EXCEPT ![p] = IdleReq]
    /\ snap' = [snap EXCEPT ![p] = NoSnap]
    /\ UNCHANGED <<reporting, today, utcLag, dbEnforces, members, payments, attendance>>

(***************************************************************************)
(* The other write paths and the clock.                                    *)
(***************************************************************************)
\* attendance/serializers.py: AttendanceSerializer.create, behind
\* AttendanceViewSet; member_id may name any Member row, code_used is the
\* member's PIN as the desk would enter it
AdminCreateAttendance(m) ==
    /\ Cardinality(attendance) < MaxAttendance
    /\ AttendanceSave(NewAttendance(m, members[m].pin_code))
    /\ UNCHANGED <<reporting, today, utcLag, dbEnforces, members, payments, req, snap>>

\* AttendanceSerializer.update on a row of Attendance.objects (active rows)
AdminUpdateAttendance(id, m) ==
    /\ \E a \in attendance :
          /\ a.id = id
          /\ a.state
          /\ a.member # m
          /\ AttendanceSave([a EXCEPT !.member = m])
    /\ UNCHANGED <<reporting, today, utcLag, dbEnforces, members, payments, req, snap>>

\* soft delete and re-activation: instance.state = s; instance.save()
SetAttendanceState(id, s) ==
    /\ \E a \in attendance :
          /\ a.id = id
          /\ a.state # s
          /\ AttendanceSave([a EXCEPT !.state = s])
    /\ UNCHANGED <<reporting, today, utcLag, dbEnforces, members, payments, req, snap>>

\* a Payment row as PaymentViewSet stores it: date is a DateTimeField (day d
\* at time t) the client may set, payment_type one of Payment.PAYMENT_TYPE,
\* payment_method one of Payment.PAYMENT_METHOD
PaymentRow(id, m, d, t, amt, meth, st) ==
    [id |-> id, member |-> m, date |-> d, time |-> t, amount |-> amt,
     payment_type |-> members[m].payment_type, payment_method |-> meth,
     state |-> st]

NewPayment(m, d, t, amt, meth) ==
    PaymentRow(Cardinality(payments) + 1, m, d, t, amt, meth, TRUE)

\* PaymentViewSet create, as the desk records a payment during the day
AddPayment(m, d) ==
    /\ Cardinality(payments) < MaxPayments
    /\ payments' = payments \cup {NewPayment(m, d, Noon, 1, "cash")}
    /\ UNCHANGED <<reporting, today, utcLag, dbEnforces, members, attendance, req, snap>>

\* MemberViewSet update / admin: MemberSerializer exposes state
SetMemberState(m, s) ==
    /\ members[m].state # s
    /\ members' = [members EXCEPT ![m].state = s]
    /\ UNCHANGED <<reporting, today, utcLag, dbEnforces, payments, attendance, req, snap>>

\* time passes: the UTC date catches up with the local date, or local
\* midnight passes (and the UTC date may stay behind for some hours)
Tick ==
    /\ \/ utcLag = 1 /\ utcLag' = 0 /\ today' = today
       \/ /\ utcLag = 0
          /\ today < StartDay + MaxTicks
          /\ today' = today + 1
          /\ utcLag' \in {0, 1}
    /\ UNCHANGED <<reporting, dbEnforces, members, payments, attendance, req, snap>>

(***************************************************************************)
(* Specifications.                                                         *)
(***************************************************************************)
InitStorage ==
    /\ today = StartDay
    /\ utcLag \in {0, 1}
    /\ dbEnforces \in BOOLEAN
    /\ \E t \in PlanTypes, c \in {StartDay - OldAge, StartDay} :
          members = [m \in MemberIds |->
                       IF m = 1
                       THEN [pin_code |-> Pin1, state |-> TRUE, gender |-> "E",
                             payment_type |-> t, created_at |-> c]
                       ELSE [pin_code |-> Pin2, state |-> TRUE, gender |-> "A",
                             payment_type |-> "Oylik", created_at |-> StartDay]]
    /\ payments = {}
    /\ attendance = {}

\* the FitnessClub table before the first row: no row, no id handed out
NoClubs ==
    [rows |-> {}, seq |-> 0]

\* nothing has been reported or computed yet
InitReporting ==
    /\ costs = {}
    /\ subscriptions = {}
    /\ reports = {}
    /\ calc = NoCall
    /\ debts = {}
    /\ clubs = NoClubs

Init ==
    /\ InitStorage
    /\ InitReporting
    /\ req = [p \in Procs |-> IdleReq]
    /\ snap = [p \in Procs |-> NoSnap]

AllIdle ==
    \A p \in Procs : req[p].pc = "idle"

\* requests are served one at a time; nothing else happens meanwhile
Next ==
    \/ \E p \in SeqProcs, code \in PinInputs : AllIdle /\ Post(p, code)
    \/ \E p \in SeqProcs : Lookup(p)
    \/ \E p \in SeqProcs : CheckExpired(p)
    \/ \E p \in SeqProcs : CheckDuplicate(p)
    \/ \E p \in SeqProcs : Create(p)
    \/ \E p \in SeqProcs : Respond(p)
    \/ \E p \in SeqProcs : Ack(p)
    \/ \E m \in MemberIds : AllIdle /\ AdminCreateAttendance(m)
    \/ \E id \in 1..MaxAttendance, m \in MemberIds :
          AllIdle /\ AdminUpdateAttendance(id, m)
    \/ \E id \in 1..MaxAttendance, s \in BOOLEAN :
          AllIdle /\ SetAttendanceState(id, s)
    \/ \E m \in MemberIds, d \in {today - OldAge, today} :
          AllIdle /\ AddPayment(m, d)
    \/ \E m \in MemberIds, s \in BOOLEAN : AllIdle /\ SetMemberState(m, s)
    \/ AllIdle /\ Tick

Spec ==
    Init /\ [][Next]_vars

\* two kiosk requests with the same PIN have been received together
RaceInit ==
    /\ InitStorage
    /\ InitReporting
    /\ req = [p \in Procs |->
                [IdleReq EXCEPT !.pc = "lookup", !.pin = Pin1,
                                !.checks = <<"format">>]]
    /\ snap = [p \in Procs |-> storage]

\* every interleaving of the steps of the two requests
RaceNext ==
    \/ \E p \in Procs : Lookup(p)
    \/ \E p \in Procs : CheckExpired(p)
    \/ \E p \in Procs : CheckDuplicate(p)
    \/ \E p \in Procs : Create(p)
    \/ \E p \in Procs : Respond(p)

RaceSpec ==
    RaceInit /\ [][RaceNext]_vars

\* the kiosk in operation: check-ins one at a time, members deactivated and
\* re-activated, payments recorded, days passing
KioskNext ==
    \/ \E p \in SeqProcs, code \in PinInputs : AllIdle /\ Post(p, code)
    \/ \E p \in SeqProcs : Lookup(p)
    \/ \E p \in SeqProcs : CheckExpired(p)
    \/ \E p \in SeqProcs : CheckDuplicate(p)
    \/ \E p \in SeqProcs : Create(p)
    \/ \E p \in SeqProcs : Respond(p)
    \/ \E p \in SeqProcs : Ack(p)
    \/ \E m \in MemberIds, d \in {today - OldAge, today} :
          AllIdle /\ AddPayment(m, d)
    \/ \E m \in MemberIds, s \in BOOLEAN : AllIdle /\ SetMemberState(m, s)
    \/ AllIdle /\ Tick

KioskSpec ==
    Init /\ [][KioskNext]_vars

(***************************************************************************)
(* The expiry functions called on their own: the members, payments and     *)
(* attendances are drawn from the tables below, and each behaviour is one  *)
(* call whose arguments and result are kept in calc.                       *)
(***************************************************************************)
\* any string can be stored in Member.payment_type by Member.objects.create
\* (choices are checked by forms and serializers only)
AllPlanTypes ==
    PlanTypes \cup {"Other"}

\* enrollment days: ends of months, February in a leap and a common year
EnrollmentDays ==
    { ToOrdinal(2024, 1, 31), ToOrdinal(2024, 2, 10), ToOrdinal(2024, 2, 29),
      ToOrdinal(2024, 12, 31), ToOrdinal(2025, 2, 10), ToOrdinal(2025, 2, 28) }

ActivePayment(id, m, d) ==
    PaymentRow(id, m, d, Noon, 1, "cash", TRUE)

DeletedPayment(id, m, d) ==
    PaymentRow(id, m, d, Noon, 1, "cash", FALSE)

\* Payment tables for a member enrolled on day c: none, one, two recorded
\* in either order, a later soft-deleted one, only a soft-deleted one, a
\* later one of the other member
PaymentTables(c) ==
    LET early == c + PayGap
        late == c + PayGap + OldAge IN
    { {},
      {ActivePayment(1, 1, early)},
      {ActivePayment(1, 1, early), ActivePayment(2, 1, late)},
      {ActivePayment(1, 1, late), ActivePayment(2, 1, early)},
      {ActivePayment(1, 1, early), DeletedPayment(2, 1, late)},
      {DeletedPayment(1, 1, late)},
      {ActivePayment(1, 1, early), ActivePayment(2, 2, late)} }

\* one visit a day from offset lo to offset hi, by member 1
Visits(lo, hi) ==
    [i \in 1..(hi - lo + 1) |-> <<lo + i - 1, 1, TRUE>>]

\* Attendance tables as <<offset from the anchor, member, state>>
AttendanceShapes ==
    { <<>>,
      Visits(0, VisitCap - 5),
      Visits(0, VisitCap - 4),
      Visits(0, VisitCap - 2),
      Visits(0, VisitCap - 2) \o << <<MonthlyDays, 1, TRUE>> >>,
      Visits(0, VisitCap - 2) \o << <<MonthlyDays + 1, 1, TRUE>> >>,
      Visits(0 - 1, VisitCap - 2),
      Visits(0, VisitCap - 2) \o << <<VisitCap - 1, 1, FALSE>> >>,
      Visits(0, VisitCap - 2) \o << <<VisitCap - 1, 2, TRUE>> >>,
      Visits(0, VisitCap) }

AttendanceTable(shape, anchor) ==
    { [id |-> i, member |-> shape[i][2], attended_at |-> anchor + shape[i][1],
       state |-> shape[i][3], code_used |-> members[shape[i][2]].pin_code] :
      i \in 1..Len(shape) }

ExpiryInit ==
    /\ today = StartDay
    /\ utcLag = 0
    /\ dbEnforces = FALSE
    /\ \E t \in AllPlanTypes, c \in EnrollmentDays :
          members = [m \in MemberIds |->
                       IF m = 1
                       THEN [pin_code |-> Pin1, state |-> TRUE, gender |-> "E",
                             payment_type |-> t, created_at |-> c]
                       ELSE [pin_code |-> Pin2, state |-> TRUE, gender |-> "A",
                             payment_type |-> "Oylik", created_at |-> c]]
    /\ payments \in PaymentTables(members[1].created_at)
    /\ \E shape \in AttendanceShapes :
          attendance = AttendanceTable(shape, BaseDate(1).d)
    /\ InitReporting
    /\ req = [p \in Procs |-> IdleReq]
    /\ snap = [p \in Procs |-> NoSnap]

\* the days a caller asks about: around the anchor and around the expiry
AsOfDays(m) ==
    LET anchor == BaseDate(m).d
        expiry == get_expiry_date(m).d IN
    { anchor - 1, anchor, anchor + 1,
      expiry - DefaultThreshold - 1, expiry - DefaultThreshold,
      expiry, expiry + 1 }

Thresholds ==
    {0, DefaultThreshold}

\* visits is the attend_count the call worked with
Call(fn, m, as_of, th, result) ==
    [fn |-> fn, member |-> m, as_of |-> as_of, threshold |-> th,
     result |-> result, visits |-> attend_count(m)]

CallGetExpiryDate(m) ==
    /\ calc = NoCall
    /\ calc' = Call("get_expiry_date", m, NoDate, 0, get_expiry_date(m))
    /\ UNCHANGED <<today, utcLag, dbEnforces, members, payments, attendance,
                   req, snap, costs, subscriptions, reports, debts, clubs>>

\* as_of_date is a datetime.date, as date.today() is at every call site
CallIsExpired(m, day) ==
    /\ calc = NoCall
    /\ calc' = Call("is_expired", m, day, 0, is_expired(m, PyDate(day)))
    /\ UNCHANGED <<today, utcLag, dbEnforces, members, payments, attendance,
                   req, snap, costs, subscriptions, reports, debts, clubs>>

CallIsExpiringSoon(m, th, day) ==
    /\ calc = NoCall
    /\ calc' = Call("is_expiring_soon", m, day, th,
                    is_expiring_soon(m, th, PyDate(day)))
    /\ UNCHANGED <<today, utcLag, dbEnforces, members, payments, attendance,
                   req, snap, costs, subscriptions, reports, debts, clubs>>

\* Member.objects.filter(state=True)
ActiveMembers ==
    {m \in MemberIds : members[m].state}

\* both classifications of one member for one day, as MemberSerializer and
\* MemberStatsAPIView ask for them
CallBoth(m, th, day) ==
    /\ calc = NoCall
    /\ calc' = [fn |-> "classify", member |-> m, as_of |-> day,
                threshold |-> th, visits |-> attend_count(m),
                expired |-> is_expired(m, PyDate(day)),
                expiring |-> is_expiring_soon(m, th, PyDate(day))]
    /\ UNCHANGED <<today, utcLag, dbEnforces, members, payments, attendance,
                   req, snap, costs, subscriptions, reports, debts, clubs>>

\* MemberStatsAPIView.get, lines 37-62, with now_date the day
\* timezone.now().date() gives: the loop counts a member as expired, else
\* as expiring; an exception in either call ends the request
MemberStats(now_date) ==
    LET active == ActiveMembers
        was_expired == [m \in active |-> is_expired(m, PyDate(now_date))]
        expired == {m \in active : was_expired[m] = "True"}
        asked == {m \in active : was_expired[m] = "False"}
        is_expiring == [m \in asked |->
                          is_expiring_soon(m, DefaultThreshold,
                                           PyDate(now_date))]
        expiring == {m \in asked : is_expiring[m] = "True"}
        raised == \/ \E m \in active : was_expired[m] = "TypeError"
                  \/ \E m \in asked : is_expiring[m] = "TypeError" IN
    /\ calc = NoCall
    /\ calc' = [fn |-> "member_stats", as_of |-> now_date,
                raised |-> IF raised THEN "TypeError" ELSE "",
                counted_expired |-> expired,
                counted_expiring |-> expiring,
                total_members |-> Cardinality(active),
                expired_members |-> Cardinality(expired),
                expiring_members |-> Cardinality(expiring)]
    /\ UNCHANGED <<today, utcLag, dbEnforces, members, payments, attendance,
                   req, snap, costs, subscriptions, reports, debts, clubs>>

ExpiryNext ==
    \/ \E m \in MemberIds : CallGetExpiryDate(m)
    \/ \E m \in MemberIds : \E day \in AsOfDays(m) : CallIsExpired(m, day)
    \/ \E m \in MemberIds, th \in Thresholds :
          \E day \in AsOfDays(m) : CallIsExpiringSoon(m, th, day)
    \/ \E m \in MemberIds, th \in Thresholds :
          \E day \in AsOfDays(m) : CallBoth(m, th, day)
    \/ \E day \in AsOfDays(1) : MemberStats(day)

ExpirySpec ==
    ExpiryInit /\ [][ExpiryNext]_vars

(***************************************************************************)
(* reports/management/commands/generate_reports.py: the report command.    *)
(* A DateTimeField filtered with a date is compared with midnight of that  *)
(* day.                                                                    *)
(***************************************************************************)
RECURSIVE SumOf(_, _)
\* Sum(field) over a set of rows; None (here 0, as `or 0` makes it) if empty
SumOf(rows, field) ==
    IF rows = {} THEN 0
    ELSE LET r == CHOOSE x \in rows : TRUE IN
         r[field] + SumOf(rows \ {r}, field)

\* filter(date=date) on a DateTimeField
OnDay(rows, d) ==
    {r \in rows : r.state /\ r.date = d /\ r.time = Midnight}

\* filter(date__gte=first_day, date__lte=last_day) on a DateTimeField
WithinDays(rows, first_day, last_day) ==
    {r \in rows : /\ r.state
                  /\ r.date >= first_day
                  /\ \/ r.date < last_day
                     \/ r.date = last_day /\ r.time = Midnight}

\* Member.objects.filter(state=True, subscriptions__end_date__range=[a, b])
ExpiringBetween(a, b) ==
    {m \in ActiveMembers :
        \E sub \in subscriptions :
           sub.member = m /\ a <= sub.end_date /\ sub.end_date <= b}

\* the twelve values both reports hold, from the rows of a period
ReportValues(pay, cost, joined, visits, expiring) ==
    [income |-> SumOf(pay, "amount"),
     cash_income |-> SumOf({r \in pay : r.payment_type = "cash"}, "amount"),
     card_income |-> SumOf({r \in pay : r.payment_type = "card"}, "amount"),
     expense |-> SumOf(cost, "quantity"),
     new_members |-> Cardinality(joined),
     renewals |-> Cardinality({r \in pay : r.payment_type = "renewal"}),
     total_members |-> Cardinality(ActiveMembers),
     check_ins |-> Cardinality(visits),
     expiring_soon |-> Cardinality(expiring),
     active_members |-> Cardinality({a.member : a \in visits}),
     male_members |->
        Cardinality({m \in ActiveMembers : members[m].gender = "male"}),
     female_members |->
        Cardinality({m \in ActiveMembers : members[m].gender = "female"})]

\* lines 43-61
DailyValues(d) ==
    ReportValues(OnDay(payments, d), OnDay(costs, d),
                 {m \in ActiveMembers : members[m].created_at = d},
                 {a \in attendance : a.state /\ a.attended_at = d},
                 ExpiringBetween(d, d + DefaultThreshold))

\* lines 82-107; month is the first day of the month
MonthlyValues(month) ==
    LET first_day == month
        last_day == LastDayOfMonth(month) IN
    ReportValues(WithinDays(payments, first_day, last_day),
                 WithinDays(costs, first_day, last_day),
                 {m \in ActiveMembers : /\ members[m].created_at >= first_day
                                        /\ members[m].created_at <= last_day},
                 {a \in attendance : /\ a.state
                                     /\ a.attended_at >= first_day
                                     /\ a.attended_at <= last_day},
                 ExpiringBetween(last_day, last_day + DefaultThreshold))

\* a table that keeps the row it has and never writes it again
update_or_create_KeepExisting(table, kind, period, values) ==
    IF \E r \in table : r.kind = kind /\ r.period = period
    THEN table
    ELSE table \cup {[id |-> Cardinality(table) + 1, kind |-> kind,
                      period |-> period, values |-> values]}

\* a table that gets a new row at every run
update_or_create_AlwaysInsert(table, kind, period, values) ==
    table \cup {[id |-> Cardinality(table) + 1, kind |-> kind,
                 period |-> period, values |-> values]}

\* DailyReport.objects.update_or_create(date=date, defaults={...}) and
\* MonthlyReport.objects.update_or_create(month=month, defaults={...})
update_or_create(table, kind, period, values) ==
    IF \E r \in table : r.kind = kind /\ r.period = period
    THEN {IF r.kind = kind /\ r.period = period
          THEN [r EXCEPT !.values = values] ELSE r : r \in table}
    ELSE table \cup {[id |-> Cardinality(table) + 1, kind |-> kind,
                      period |-> period, values |-> values]}

generate_daily_report(table, d) ==
    update_or_create(table, "daily", d, DailyValues(d))

generate_monthly_report(table, month) ==
    update_or_create(table, "monthly", month, MonthlyValues(month))

\* option not given
NoOpt ==
    [year |-> 0, month |-> 0, day |-> 0]

\* datetime.strptime(s, '%Y-%m-%d').date(); NoDate stands for ValueError
ParseDate(s) ==
    IF s.month \in 1..12 /\ s.day \in 1..MonthRange(s.year, s.month)
    THEN ToOrdinal(s.year, s.month, s.day)
    ELSE NoDate

\* datetime.strptime(s, '%Y-%m').date().replace(day=1)
ParseMonth(s) ==
    IF s.month \in 1..12 THEN ToOrdinal(s.year, s.month, 1) ELSE NoDate

\* today.replace(day=1)
FirstOfMonth(n) ==
    ToOrdinal(ToYMD(n).year, ToYMD(n).month, 1)

\* command lines <<--date, --month>>: neither option, the first day of the
\* model, that day and its month, a day that is none, a month that is none
CommandLines ==
    LET day == ToYMD(StartDay)
        month == [ToYMD(StartDay) EXCEPT !.day = 1] IN
    { <<NoOpt, NoOpt>>, <<day, NoOpt>>, <<day, month>>,
      <<[day EXCEPT !.day = 32], month>>,
      <<day, [month EXCEPT !.month = 13]>> }

\* the rows the command reads
ReportData ==
    <<members, payments, costs, attendance, subscriptions>>

\* the number of runs of the command so far
Runs ==
    IF calc = NoCall THEN 0 ELSE calc.runs

\* the rows are as the last run of the command read them, and the command
\* will run again
Unchanged ==
    calc # NoCall /\ calc.data = ReportData /\ calc.runs < MaxRuns

\* Command.handle, lines 17-41
Handle(date_str, month_str) ==
    LET now == today - utcLag
        report_date == IF date_str = NoOpt THEN now ELSE ParseDate(date_str)
        report_month == IF month_str = NoOpt THEN FirstOfMonth(now)
                        ELSE ParseMonth(month_str)
        daily == IF report_date = NoDate THEN reports
                 ELSE generate_daily_report(reports, report_date)
        month_run == IF report_date = NoDate THEN NoDate ELSE report_month
        monthly == IF month_run = NoDate THEN daily
                   ELSE generate_monthly_report(daily, month_run) IN
    /\ Runs < MaxRuns
    /\ reports' = monthly
    /\ calc' = [fn |-> "generate_reports",
                runs |-> Runs + 1,
                date |-> report_date,
                month |-> month_run,
                daily |-> IF report_date = NoDate THEN NoCall
                          ELSE DailyValues(report_date),
                monthly |-> IF month_run = NoDate THEN NoCall
                            ELSE MonthlyValues(month_run),
                data |-> ReportData,
                before |-> reports,
                repeat |-> /\ calc # NoCall
                           /\ report_date # NoDate
                           /\ calc.date = report_date
                           /\ calc.month = month_run
                           /\ calc.data = ReportData]
    /\ UNCHANGED <<today, utcLag, dbEnforces, members, payments, attendance,
                   req, snap, costs, subscriptions, debts, clubs>>

\* PaymentViewSet create with the date and time the client sends
RecordPayment(m, d, t, amt, meth) ==
    /\ Cardinality(payments) < MaxPayments
    /\ payments' = payments \cup {NewPayment(m, d, t, amt, meth)}
    /\ UNCHANGED <<reporting, today, utcLag, dbEnforces, members, attendance,
                   req, snap>>

\* PaymentAdmin change form: state unticked
SoftDeletePayment(id) ==
    /\ \E p \in payments : p.id = id /\ p.state
    /\ payments' = {IF p.id = id THEN [p EXCEPT !.state = FALSE] ELSE p :
                       p \in payments}
    /\ UNCHANGED <<reporting, today, utcLag, dbEnforces, members, attendance,
                   req, snap>>

\* CostsViewSet create: Costs.date is a DateTimeField the client may set
AddCost(d, t, q) ==
    /\ Cardinality(costs) < MaxCosts
    /\ costs' = costs \cup {[id |-> Cardinality(costs) + 1, quantity |-> q,
                              date |-> d, time |-> t, state |-> TRUE]}
    /\ UNCHANGED <<subscriptions, reports, calc, debts, clubs, today, utcLag,
                   dbEnforces, members, payments, attendance, req, snap>>

\* the club on its first day: two members enrolled, possibly a payment
\* dated midnight, a visit and a subscription that ends within three days
ReportInit ==
    /\ today = StartDay
    /\ utcLag = 0
    /\ dbEnforces = FALSE
    /\ members = [m \in MemberIds |->
                    [pin_code |-> IF m = 1 THEN Pin1 ELSE Pin2,
                     state |-> TRUE,
                     gender |-> IF m = 1 THEN "E" ELSE "A",
                     payment_type |-> "Oylik",
                     created_at |-> IF m = 1 THEN StartDay - OldAge
                                    ELSE StartDay]]
    /\ payments \in
          { {}, {PaymentRow(1, 1, StartDay, Midnight, 2, "cash", TRUE)} }
    /\ attendance \in
          { {}, AttendanceTable(<< <<0, 1, TRUE>> >>, StartDay) }
    /\ costs = {}
    /\ subscriptions \in
          { {}, {[id |-> 1, member |-> 1, end_date |-> StartDay + 2,
                  state |-> TRUE]} }
    /\ reports = {}
    /\ calc = NoCall
    /\ debts = {}
    /\ clubs = NoClubs
    /\ req = [p \in Procs |-> IdleReq]
    /\ snap = [p \in Procs |-> NoSnap]

\* runs of the command, with at most one change of the rows after a run
ReportNext ==
    \/ \E options \in CommandLines : Handle(options[1], options[2])
    \/ \E t \in {Midnight, Noon} :
          Unchanged /\ RecordPayment(1, today, t, 2, "cash")
    \/ \E id \in 1..MaxPayments : Unchanged /\ SoftDeletePayment(id)
    \/ \E t \in {Midnight, Noon} : Unchanged /\ AddCost(today, t, 1)
    \/ \E m \in MemberIds : Unchanged /\ AdminCreateAttendance(m)
    \/ \E m \in MemberIds, st \in BOOLEAN :
          Unchanged /\ SetMemberState(m, st)
    \/ Runs < MaxRuns /\ Tick

ReportSpec ==
    ReportInit /\ [][ReportNext]_vars

(***************************************************************************)
(* The vocabulary of the claims (spec sections 4.1 - 4.3).                 *)
(***************************************************************************)
Done(p) ==
    req[p].pc = "done"

Rejections ==
    {InvalidInput, NotFound, PlanExpired, DuplicateCheckIn}

CheckOrder ==
    <<"format", "member", "eligibility", "duplicate">>

\* missing, null, empty, not four characters long, or with a non-digit
Malformed(code) ==
    \/ code = PyNone
    \/ code = <<>>
    \/ Len(code) # PinLength
    \/ \E i \in 1..Len(code) : code[i] \notin Digits

\* anchor: the latest active payment's day, else the enrollment day
AnchorDay(m) ==
    IF MemberPayments(m) = {} THEN members[m].created_at
    ELSE CHOOSE d \in {p.date : p \in MemberPayments(m)} :
           \A p \in MemberPayments(m) : p.date <= d

ExpiryDay(m) ==
    IF members[m].payment_type = "Premium" THEN LastDayOfMonth(AnchorDay(m))
    ELSE IF members[m].payment_type = "Kunlik" THEN AnchorDay(m)
    ELSE AnchorDay(m) + MonthlyDays

VisitsUsed(m, att) ==
    Cardinality({a \in att : /\ a.member = m
                             /\ a.state
                             /\ a.attended_at >= AnchorDay(m)
                             /\ a.attended_at <= ExpiryDay(m)})

\* Expired iff as_of > expiry_date, or Monthly with the visits used up
ExpiredOn(m, day, att) ==
    \/ day > ExpiryDay(m)
    \/ members[m].payment_type = "Oylik" /\ VisitsUsed(m, att) >= VisitCap

ActiveOn(m, day, att) ==
    \E a \in att : a.member = m /\ a.state /\ a.attended_at = day

\* the member a well-formed PIN names, as the rows stood at the request
Holder(code) ==
    CHOOSE m \in MemberIds \cup {NoMember} :
       IF \E k \in MemberIds : members[k].pin_code = code /\ members[k].state
       THEN m \in MemberIds /\ members[m].pin_code = code /\ members[m].state
       ELSE m = NoMember

SnapAtt(p) ==
    snap[p][1]

C2_ExactlyOneSucceeds ==
    (/\ utcLag = 0
     /\ \A p \in Procs : Done(p) /\ req[p].checks = CheckOrder)
    => /\ \E p, q \in Procs :
             /\ p # q
             /\ req[p].resp = Created
             /\ req[q].resp = DuplicateCheckIn
       /\ Cardinality({a \in attendance :
                          a.state /\ a.member = 1 /\ a.attended_at = today}) = 1

(***************************************************************************)
(* C3.  A check-in whose insert is refused by the storage-level uniqueness *)
(* rule answers DuplicateCheckIn (400), never an unhandled failure.        *)
(***************************************************************************)
C3_ConstraintViolationIsDuplicate ==
    \A p \in Procs :
       (Done(p) /\ req[p].integrity) => req[p].resp = DuplicateCheckIn

(***************************************************************************)
(* C4.  The checks run in the order format, member, eligibility,           *)
(* duplicate, and the first failing one decides: a malformed PIN is        *)
(* rejected before any storage lookup, and an Expired member with an       *)
(* active attendance today gets PlanExpired, not DuplicateCheckIn.         *)
(***************************************************************************)
C4_FirstFailingCheckDecides ==
    \A p \in Procs :
       Done(p) =>
          /\ \A i \in 1..Len(req[p].checks) : req[p].checks[i] = CheckOrder[i]
          /\ Malformed(req[p].pin)
                => (req[p].resp = InvalidInput /\ req[p].reads = 0)
          /\ (/\ ~Malformed(req[p].pin)
              /\ Holder(req[p].pin) # NoMember
              /\ ExpiredOn(Holder(req[p].pin), today, SnapAtt(p))
              /\ ActiveOn(Holder(req[p].pin), today, SnapAtt(p)))
                => req[p].resp = PlanExpired

(***************************************************************************)
(* C5.  A PIN that is missing, null, empty, not exactly four characters    *)
(* long or that contains a non-digit is answered InvalidInput (400) and    *)
(* nothing else.                                                           *)
(***************************************************************************)
C5_MalformedPinIsInvalidInput ==
    \A p \in Procs :
       (Done(p) /\ Malformed(req[p].pin)) => req[p].resp = InvalidInput

(***************************************************************************)
(* C6.  A well-formed PIN that no member has and a well-formed PIN that    *)
(* only an inactive member has get one and the same response: NotFound     *)
(* (404) with the same body.                                               *)
(***************************************************************************)
C6_NotFoundIndistinguishable ==
    \A p \in Procs :
       (Done(p) /\ ~BadFormat(req[p].pin)
          /\ req[p].matched \in {"none", "inactive"})
       => req[p].resp = NotFound

C6_Witness ==
    \E p \in Procs :
       /\ Done(p)
       /\ req[p].matched = "inactive"
       /\ req[p].resp = NotFound
       /\ \E m \in MemberIds :
             members[m].pin_code = req[p].pin /\ ~members[m].state

(***************************************************************************)
(* C7.  A check-in that ends in InvalidInput, NotFound, PlanExpired or     *)
(* DuplicateCheckIn leaves the Attendance, Payment and Member rows exactly *)
(* as they were when it began, and the Attendance rows differ from what    *)
(* they were only once all four checks have passed.                        *)
(***************************************************************************)
C7_RejectionLeavesRowsUnchanged ==
    \A p \in Procs :
       /\ (Done(p) /\ req[p].resp \in Rejections)
             => (storage = snap[p] /\ req[p].wrote = 0)
       /\ (req[p].pc # "idle" /\ attendance # SnapAtt(p))
             => /\ req[p].checks = CheckOrder
                /\ req[p].pc \in {"respond", "done"}
                /\ req[p].resp \notin Rejections

C7_Witness ==
    \E p \in Procs :
       /\ Done(p)
       /\ req[p].resp = DuplicateCheckIn
       /\ req[p].checks = CheckOrder
       /\ ActiveOn(req[p].member, today - utcLag, attendance)
       /\ storage = snap[p]

(***************************************************************************)
(* C8.  For an active member that is not Expired today: with no active     *)
(* attendance today a check-in answers 201 and adds exactly one active row *)
(* (the member, today, code_used = the PIN); with one it answers           *)
(* DuplicateCheckIn and adds no row.                                       *)
(***************************************************************************)
C8_EligibleCheckInCreatesOnce ==
    \A p \in Procs :
       (/\ Done(p)
        /\ ~Malformed(req[p].pin)
        /\ Holder(req[p].pin) # NoMember
        /\ ~ExpiredOn(Holder(req[p].pin), today, SnapAtt(p)))
       => IF ActiveOn(Holder(req[p].pin), today, SnapAtt(p))
          THEN req[p].resp = DuplicateCheckIn /\ attendance = SnapAtt(p)
          ELSE /\ req[p].resp = Created
               /\ \E a \in attendance \ SnapAtt(p) :
                     /\ attendance = SnapAtt(p) \cup {a}
                     /\ a.member = Holder(req[p].pin)
                     /\ a.attended_at = today
                     /\ a.state
                     /\ a.code_used = req[p].pin

(***************************************************************************)
(* C9.  A check-in of a resolved member who is Expired as of today answers *)
(* PlanExpired (400) and creates no Attendance; so does that of a Monthly  *)
(* member whose latest payment is 35 days old.                             *)
(***************************************************************************)
C9_ExpiredMemberIsRejected ==
    \A p \in Procs :
       (/\ Done(p)
        /\ ~Malformed(req[p].pin)
        /\ Holder(req[p].pin) # NoMember
        /\ ExpiredOn(Holder(req[p].pin), today, SnapAtt(p)))
       => (req[p].resp = PlanExpired /\ attendance = SnapAtt(p))

(***************************************************************************)
(* C10.  An active Attendance of member m on day d blocks only (m, d): a   *)
(* check-in's insert is refused only when the member already has an active *)
(* row dated today, so a row of another day never stands in the way.       *)
(***************************************************************************)
C10_BlocksOnlySameMemberSameDay ==
    \A p \in Procs :
       (/\ Done(p)
        /\ req[p].resp.status = 500
        /\ req[p].resp.error \in {"IntegrityError", "ValidationError"})
       => ActiveOn(req[p].member, today, SnapAtt(p))

(***************************************************************************)
(* The call under examination and its member.                              *)
(***************************************************************************)
Called(fn) ==
    calc.fn = fn

PlanOf(m) ==
    members[m].payment_type

(***************************************************************************)
(* C11.  For a Monthly member get_expiry_date returns the anchor date plus *)
(* 30 days; with no payment that is the enrollment date plus 30 days.      *)
(***************************************************************************)
C11_MonthlyExpiryIsAnchorPlus30 ==
    (Called("get_expiry_date") /\ PlanOf(calc.member) = "Oylik")
    => calc.result = PyDate(AnchorDay(calc.member) + MonthlyDays)

\* the part of C11 about a member without payments
C11_Witness ==
    /\ Called("get_expiry_date")
    /\ PlanOf(calc.member) = "Oylik"
    /\ MemberPayments(calc.member) = {}
    /\ calc.result = PyDate(members[calc.member].created_at + MonthlyDays)

(***************************************************************************)
(* C12.  For a Premium member get_expiry_date returns the last calendar    *)
(* day of the month and year of the anchor date, wherever in the month the *)
(* anchor falls: on the last day itself, in February of a leap year        *)
(* (10 February 2024, day 40, gives 29 February 2024, day 59) and of a     *)
(* common year (10 February 2025, day 406, gives 28 February 2025, day     *)
(* 424).                                                                   *)
(***************************************************************************)
C12_PremiumExpiryIsLastDayOfMonth ==
    (Called("get_expiry_date") /\ PlanOf(calc.member) = "Premium")
    => LET a == AnchorDay(calc.member)
           e == calc.result.d IN
       /\ calc.result.ty = "date"
       /\ ToYMD(e).year = ToYMD(a).year
       /\ ToYMD(e).month = ToYMD(a).month
       /\ ToYMD(e + 1).day = 1
       /\ e >= a
       /\ (a = 40 => e = 59)
       /\ (a = 59 => e = 59)
       /\ (a = 406 => e = 424)
       /\ (a = 424 => e = 424)

C12_Witness ==
    /\ Called("get_expiry_date")
    /\ PlanOf(calc.member) = "Premium"
    /\ AnchorDay(calc.member) = 424
    /\ calc.result = PyDate(424)

(***************************************************************************)
(* C13.  For a Daily member the expiry date is the anchor date itself: the *)
(* member is not Expired as of the anchor date and Expired as of every     *)
(* later date.                                                             *)
(***************************************************************************)
C13_DailyExpiresOnAnchorDay ==
    /\ (Called("get_expiry_date") /\ PlanOf(calc.member) = "Kunlik")
          => calc.result = PyDate(AnchorDay(calc.member))
    /\ (/\ Called("is_expired")
        /\ PlanOf(calc.member) = "Kunlik"
        /\ calc.as_of >= AnchorDay(calc.member))
          => calc.result = PyBool(calc.as_of > AnchorDay(calc.member))

(***************************************************************************)
(* C14.  The anchor the expiry is computed from is the latest date among   *)
(* the member's active payments, in whatever order they were recorded, and *)
(* the enrollment date when there is no active payment; soft-deleted       *)
(* payments and payments of other members do not count.  (The day of the   *)
(* returned expiry is the day the plan yields from that anchor.)           *)
(***************************************************************************)
C14_AnchorIsLatestActivePayment ==
    Called("get_expiry_date")
    => /\ calc.result.d = ExpiryDay(calc.member)
       /\ (\A p \in payments : p.member = calc.member => ~p.state)
             => (/\ PlanOf(calc.member) = "Kunlik"
                       => calc.result.d = members[calc.member].created_at
                 /\ PlanOf(calc.member) \in {"Oylik", "Other"}
                       => calc.result.d =
                            members[calc.member].created_at + MonthlyDays)
       /\ \A p \in payments :
             (p.member = calc.member /\ p.state /\ PlanOf(calc.member) = "Kunlik")
                => calc.result.d >= p.date

\* the later payment was recorded first
C14_Witness ==
    /\ Called("get_expiry_date")
    /\ PlanOf(calc.member) = "Kunlik"
    /\ \E p, q \in payments :
          /\ p.member = calc.member /\ q.member = calc.member
          /\ p.state /\ q.state
          /\ p.id < q.id /\ p.date > q.date
          /\ calc.result.d = p.date

(***************************************************************************)
(* C15.  A member of any plan type, one that is none of Daily, Monthly and *)
(* Premium included, is classified Expired for every as_of date strictly   *)
(* after the expiry date.                                                  *)
(***************************************************************************)
C15_ExpiredAfterExpiryForEveryPlan ==
    (Called("is_expired") /\ calc.as_of > ExpiryDay(calc.member))
    => calc.result = "True"

C17_ExpiringSoonExactly ==
    Called("is_expiring_soon")
    => calc.result =
         PyBool(/\ ~ExpiredOn(calc.member, calc.as_of, attendance)
                /\ \/ ExpiryDay(calc.member) - calc.as_of <= calc.threshold
                   \/ /\ PlanOf(calc.member) = "Oylik"
                      /\ VisitCap - VisitsUsed(calc.member, attendance)
                            <= VisitsLeftWarn)

C19_RerunLeavesReportsUnchanged ==
    (Called("generate_reports") /\ calc.repeat) => reports = calc.before

\* the second run found a daily and a monthly report with a visit counted
C19_Witness ==
    /\ Called("generate_reports")
    /\ calc.repeat
    /\ calc.month # NoDate
    /\ \E r \in reports :
          r.kind = "daily" /\ r.period = calc.date /\ r.values.check_ins > 0
    /\ \E r \in reports :
          r.kind = "monthly" /\ r.period = calc.month /\ r.values.income > 0

(***************************************************************************)
(* C20.  Whatever runs of the report command and changes of the rows came  *)
(* before, there is at most one DailyReport for a date and at most one     *)
(* MonthlyReport for a month, and the report stored for the period of the  *)
(* latest run holds the values that run computed.                          *)
(***************************************************************************)
C20_OneReportPerPeriodLatestValues ==
    /\ \A r, q \in reports :
          (r.kind = q.kind /\ r.period = q.period) => r = q
    /\ Called("generate_reports")
          => /\ calc.date # NoDate
                   => \E r \in reports : /\ r.kind = "daily"
                                         /\ r.period = calc.date
                                         /\ r.values = calc.daily
             /\ calc.month # NoDate
                   => \E r \in reports : /\ r.kind = "monthly"
                                         /\ r.period = calc.month
                                         /\ r.values = calc.monthly

\* the latest run overwrote the numbers of an earlier report for its date
C20_Witness ==
    /\ Called("generate_reports")
    /\ calc.date # NoDate
    /\ \E old \in calc.before :
          /\ old.kind = "daily"
          /\ old.period = calc.date
          /\ old.values # calc.daily
          /\ \E r \in reports : /\ r.id = old.id
                                 /\ r.kind = "daily"
                                 /\ r.period = calc.date
                                 /\ r.values = calc.daily
    /\ Cardinality({r \in reports : r.kind = "daily" /\ r.period = calc.date})
          = 1

(***************************************************************************)
(* The vocabulary of the report claims (spec section on reports).          *)
(***************************************************************************)
\* active payments dated within the days first..last
PaidWithin(first, last) ==
    {r \in payments : r.state /\ first <= r.date /\ r.date <= last}

\* the sum of the amounts of those paid by one method
PaidBy(rows, method) ==
    SumOf({r \in rows : r.payment_method = method}, "amount")

\* the split of income by method that a report should hold
SplitByMethod(values, rows) ==
    /\ values.cash_income = PaidBy(rows, "cash")
    /\ values.card_income = PaidBy(rows, "card")
    /\ values.cash_income + values.card_income <= values.income
    /\ values.income - values.cash_income - values.card_income
          = PaidBy(rows, "transfer")

(***************************************************************************)
(* C21.  In the daily and the monthly report a run of the command has      *)
(* computed, cash_income is the sum of the amounts of the active payments  *)
(* of the period paid in cash and card_income the sum of those paid by     *)
(* card; the two together are at most income, and what remains of income   *)
(* is the sum of the payments by transfer.                                 *)
(***************************************************************************)
C21_IncomeSplitByMethod ==
    Called("generate_reports")
       => /\ calc.date # NoDate
                => SplitByMethod(calc.daily, PaidWithin(calc.date, calc.date))
          /\ calc.month # NoDate
                => SplitByMethod(calc.monthly,
                                 PaidWithin(calc.month,
                                            LastDayOfMonth(calc.month)))

\* the active members is_expiring_soon reports at a day, threshold 3
EngineExpiringSoon(day) ==
    {m \in ActiveMembers :
        is_expiring_soon(m, DefaultThreshold, PyDate(day)) = "True"}

(***************************************************************************)
(* C22.  The expiring_soon value of a report a run of the command has      *)
(* computed is the number of active members for which is_expiring_soon,    *)
(* over the payments and attendances, holds at the end of the period (the  *)
(* date of a daily report, the last day of the month of a monthly one)     *)
(* with a threshold of 3 days.                                             *)
(***************************************************************************)
C22_ExpiringSoonIsEngineCount ==
    Called("generate_reports")
       => /\ calc.date # NoDate
                => calc.daily.expiring_soon
                      = Cardinality(EngineExpiringSoon(calc.date))
          /\ calc.month # NoDate
                => calc.monthly.expiring_soon
                      = Cardinality(EngineExpiringSoon(
                                       LastDayOfMonth(calc.month)))

(***************************************************************************)
(* Soft delete: the managers of Attendance, Payment, Costs and Debt        *)
(* (finance/models.py, attendance/models.py) and the writes of their       *)
(* state flag.                                                             *)
(***************************************************************************)
MaxDebts ==
    1

\* a manager that forgets the state filter
ActiveManager_All(rows) ==
    rows

\* ActiveManager.get_queryset: super().get_queryset().filter(state=True)
ActiveManager(rows) ==
    {r \in rows : r.state}

\* AttendanceManager.get_queryset: the same filter
AttendanceManager(rows) ==
    {r \in rows : r.state}

\* models.Manager(): every row
Manager(rows) ==
    rows

SoftDeleteModels ==
    {"Attendance", "Payment", "Costs", "Debt"}

\* the rows in storage of a model
Table(model) ==
    CASE model = "Attendance" -> attendance
      [] model = "Payment" -> payments
      [] model = "Costs" -> costs
      [] model = "Debt" -> debts

\* Model.objects
objects(model) ==
    IF model = "Attendance" THEN AttendanceManager(Table(model))
    ELSE ActiveManager(Table(model))

\* Model.all_objects
all_objects(model) ==
    Manager(Table(model))

\* Model.objects.all() or Model.all_objects.all(), evaluated
QueryAll(model, manager) ==
    /\ calc' = [fn |-> "all", model |-> model, manager |-> manager,
                rows |-> Table(model),
                result |-> IF manager = "objects" THEN objects(model)
                           ELSE all_objects(model)]
    /\ UNCHANGED <<today, utcLag, dbEnforces, members, payments, attendance,
                   req, snap, costs, subscriptions, reports, debts, clubs>>

\* cost.state = s; cost.save()  (CostsAdmin change form)
SetCostState(id, s) ==
    /\ \E c \in costs : c.id = id /\ c.state # s
    /\ costs' = {IF c.id = id THEN [c EXCEPT !.state = s] ELSE c : c \in costs}
    /\ UNCHANGED <<subscriptions, reports, calc, debts, clubs, today, utcLag,
                   dbEnforces, members, payments, attendance, req, snap>>

\* DebtViewSet create
AddDebt(m, amt) ==
    /\ Cardinality(debts) < MaxDebts
    /\ debts' = debts \cup {[id |-> Cardinality(debts) + 1, member |-> m,
                              amount |-> amt, due_date |-> today,
                              state |-> TRUE]}
    /\ UNCHANGED <<costs, subscriptions, reports, calc, clubs, today, utcLag,
                   dbEnforces, members, payments, attendance, req, snap>>

\* debt.state = s; debt.save()  (DebtAdmin change form)
SetDebtState(id, s) ==
    /\ \E d \in debts : d.id = id /\ d.state # s
    /\ debts' = {IF d.id = id THEN [d EXCEPT !.state = s] ELSE d : d \in debts}
    /\ UNCHANGED <<costs, subscriptions, reports, calc, clubs, today, utcLag,
                   dbEnforces, members, payments, attendance, req, snap>>

\* the desk creates rows and unticks and ticks their state; then it lists
\* the tables
ManagerInit ==
    /\ today = StartDay
    /\ utcLag = 0
    /\ dbEnforces = FALSE
    /\ members = [m \in MemberIds |->
                    [pin_code |-> IF m = 1 THEN Pin1 ELSE Pin2,
                     state |-> TRUE,
                     gender |-> IF m = 1 THEN "E" ELSE "A",
                     payment_type |-> "Oylik",
                     created_at |-> StartDay]]
    /\ payments = {}
    /\ attendance = {}
    /\ InitReporting
    /\ req = [p \in Procs |-> IdleReq]
    /\ snap = [p \in Procs |-> NoSnap]

\* no table has been listed yet
NotListed ==
    calc = NoCall

ManagerNext ==
    \/ NotListed /\ AdminCreateAttendance(1)
    \/ \E id \in 1..MaxAttendance, s \in BOOLEAN :
          NotListed /\ SetAttendanceState(id, s)
    \/ NotListed /\ RecordPayment(1, today, Noon, 2, "cash")
    \/ \E id \in 1..MaxPayments : NotListed /\ SoftDeletePayment(id)
    \/ NotListed /\ AddCost(today, Noon, 1)
    \/ \E id \in 1..MaxCosts, s \in BOOLEAN :
          NotListed /\ SetCostState(id, s)
    \/ NotListed /\ AddDebt(1, 1)
    \/ \E id \in 1..MaxDebts, s \in BOOLEAN :
          NotListed /\ SetDebtState(id, s)
    \/ \E model \in SoftDeleteModels, manager \in {"objects", "all_objects"} :
          QueryAll(model, manager)

ManagerSpec ==
    ManagerInit /\ [][ManagerNext]_vars

\* the ids of the rows of a table
Ids(rows) ==
    {r.id : r \in rows}

\* a step that sets the state of a row of the table to False
SoftDeletes(before, after) ==
    \E r \in before, q \in after : r.id = q.id /\ r.state /\ ~q.state

\* what the last listing of a table returned, against the rows it had
ListingHonoursState ==
    Called("all")
       => \A r \in calc.rows :
             ~r.state => /\ calc.manager = "objects" => r \notin calc.result
                         /\ calc.manager = "all_objects" => r \in calc.result

(***************************************************************************)
(* C23.  For Attendance, Payment, Costs and Debt: a listing through the    *)
(* default manager (objects) never returns a row whose state is False, a   *)
(* listing through all_objects returns every such row, and a step that     *)
(* sets the state of a row to False leaves every row of its table in       *)
(* storage.                                                                *)
(***************************************************************************)
C23_SoftDeletedRowsHiddenNotRemoved ==
    [][ /\ ListingHonoursState'
        /\ SoftDeletes(attendance, attendance')
              => Ids(attendance') = Ids(attendance)
        /\ SoftDeletes(payments, payments') => Ids(payments') = Ids(payments)
        /\ SoftDeletes(costs, costs') => Ids(costs') = Ids(costs)
        /\ SoftDeletes(debts, debts') => Ids(debts') = Ids(debts) ]_vars

\* every one of the four tables holds a row with state False, and the last
\* listing was Debt.objects.all(), which left that row out
C23_Witness ==
    /\ \A model \in SoftDeleteModels : \E r \in Table(model) : ~r.state
    /\ Called("all")
    /\ calc.model = "Debt"
    /\ calc.manager = "objects"
    /\ calc.rows = debts
    /\ calc.result = {}

(***************************************************************************)
(* members/models.py: FitnessClub, the club's one configuration row.       *)
(* clubs.rows are the rows in storage, clubs.seq the last id the storage   *)
(* handed out.  daily and monthly are DecimalFields without a default and  *)
(* without null=True: a row saved without them is refused by the storage   *)
(* (IntegrityError).                                                       *)
(***************************************************************************)
MaxClubs ==
    2

ClubIds ==
    1..MaxClubs

ClubNames ==
    {"A", "B"}

\* FitnessClub(**kwargs): id is NoPk unless given, daily is None unless given
ClubInstance(id, name, daily) ==
    [id |-> id, name |-> name, daily |-> daily]

\* Model.save of an instance the override lets through; bump tells whether
\* the storage moves its sequence past an id given by the caller
ModelSave(inst, bump) ==
    IF inst.daily = "None" THEN [clubs |-> clubs, raised |-> "IntegrityError"]
    ELSE IF inst.id = NoPk
    THEN [clubs |-> [rows |-> clubs.rows
                                 \cup {[inst EXCEPT !.id = clubs.seq + 1]},
                     seq |-> clubs.seq + 1],
          raised |-> ""]
    ELSE [clubs |-> [rows |-> {r \in clubs.rows : r.id # inst.id}
                                 \cup {inst},
                     seq |-> IF bump /\ inst.id > clubs.seq THEN inst.id
                             ELSE clubs.seq],
          raised |-> ""]

\* FitnessClub.save, lines 27-30
FitnessClubSave(inst, bump) ==
    IF clubs.rows # {} /\ inst.id = NoPk
    THEN [clubs |-> clubs, raised |-> ""]
    ELSE ModelSave(inst, bump)

\* FitnessClub.get_instance, lines 22-25: objects.get_or_create(id=1)
get_instance ==
    IF \E r \in clubs.rows : r.id = 1
    THEN [clubs |-> clubs, raised |-> "",
          returned |-> {r \in clubs.rows : r.id = 1}]
    ELSE LET saved == FitnessClubSave(ClubInstance(1, "", "None"), FALSE) IN
         [clubs |-> saved.clubs, raised |-> saved.raised,
          returned |-> {r \in saved.clubs.rows :
                           saved.raised = "" /\ r.id = 1}]

\* FitnessClub.objects.create(name=..., daily=..., monthly=...), the POST of
\* FitnessClubViewSet and the admin's add form: no id is given
ClubCreate(name) ==
    /\ clubs.seq < MaxClubs
    /\ clubs' = FitnessClubSave(ClubInstance(NoPk, name, "50.00"), FALSE).clubs
    /\ UNCHANGED <<costs, subscriptions, reports, calc, debts, today, utcLag,
                   dbEnforces, members, payments, attendance, req, snap>>

\* club.save() of an instance that has an id: a row that was loaded, or one
\* built or created with id=...
ClubSaveWithPk(id, name) ==
    /\ \E bump \in BOOLEAN :
          clubs' = FitnessClubSave(ClubInstance(id, name, "50.00"), bump).clubs
    /\ UNCHANGED <<costs, subscriptions, reports, calc, debts, today, utcLag,
                   dbEnforces, members, payments, attendance, req, snap>>

\* FitnessClubViewSet destroy
ClubDestroy(id) ==
    /\ \E r \in clubs.rows : r.id = id
    /\ clubs' = [clubs EXCEPT !.rows = {r \in clubs.rows : r.id # id}]
    /\ UNCHANGED <<costs, subscriptions, reports, calc, debts, today, utcLag,
                   dbEnforces, members, payments, attendance, req, snap>>

\* a call of FitnessClub.get_instance()
GetInstance ==
    /\ clubs' = get_instance.clubs
    /\ calc' = [fn |-> "get_instance", raised |-> get_instance.raised,
                returned |-> get_instance.returned,
                after |-> get_instance.clubs.rows]
    /\ UNCHANGED <<costs, subscriptions, reports, debts, today, utcLag,
                   dbEnforces, members, payments, attendance, req, snap>>

ClubInit ==
    /\ InitStorage
    /\ utcLag = 0
    /\ dbEnforces = FALSE
    /\ InitReporting
    /\ req = [p \in Procs |-> IdleReq]
    /\ snap = [p \in Procs |-> NoSnap]

ClubNext ==
    \/ \E name \in ClubNames : ClubCreate(name)
    \/ \E id \in ClubIds, name \in ClubNames : ClubSaveWithPk(id, name)
    \/ \E id \in ClubIds : ClubDestroy(id)
    \/ GetInstance

ClubSpec ==
    ClubInit /\ [][ClubNext]_vars

(***************************************************************************)
(* C24.  After any sequence of FitnessClub.get_instance() calls and        *)
(* FitnessClub creates and saves there is at most one FitnessClub row,     *)
(* and the last get_instance() call returned a row, the one row that       *)
(* existed when it returned.                                               *)
(***************************************************************************)
C24_OneClubRowReturned ==
    /\ Cardinality(clubs.rows) <= 1
    /\ Called("get_instance")
          => /\ calc.raised = ""
             /\ Cardinality(calc.returned) = 1
             /\ calc.after = calc.returned

\* after get_instance() returned the row with id 1, a second row was saved
C24_TwoRows ==
    /\ Called("get_instance")
    /\ calc.raised = ""
    /\ Cardinality(clubs.rows) = 2

(***************************************************************************)
(* The kiosk late in a Monthly cycle: member 1 enrolled eleven days ago,   *)
(* has paid on that day or not at all, and has visited on every day since  *)
(* but the last one or two; the cycle of member 2 ended five days ago.     *)
(***************************************************************************)
CapInit ==
    /\ today = StartDay
    /\ utcLag = 0
    /\ dbEnforces \in BOOLEAN
    /\ members = [m \in MemberIds |->
                    [pin_code |-> IF m = 1 THEN Pin1 ELSE Pin2,
                     state |-> TRUE,
                     gender |-> IF m = 1 THEN "E" ELSE "A",
                     payment_type |-> "Oylik",
                     created_at |-> IF m = 1 THEN StartDay - (VisitCap - 1)
                                    ELSE StartDay - OldAge]]
    /\ payments \in { {}, {ActivePayment(1, 1, StartDay - (VisitCap - 1))} }
    /\ \E last \in {VisitCap - 3, VisitCap - 2} :
          attendance = AttendanceTable(Visits(0, last),
                                       StartDay - (VisitCap - 1))
    /\ InitReporting
    /\ req = [p \in Procs |-> IdleReq]
    /\ snap = [p \in Procs |-> NoSnap]

CapSpec ==
    CapInit /\ [][KioskNext]_vars

(***************************************************************************)
(* C25.  With check-ins served one at a time, a Monthly member never has   *)
(* more than 12 active attendances dated within the current cycle          *)
(* [anchor, expiry]; a check-in of a member who has 11 of them, is within  *)
(* the cycle and has not visited today is answered Created, and a          *)
(* check-in of a member who has 12 is answered PlanExpired.                *)
(***************************************************************************)
C25_TwelveVisitsPerCycle ==
    /\ \A m \in MemberIds :
          members[m].payment_type = "Oylik"
             => VisitsUsed(m, attendance) <= VisitCap
    /\ \A p \in SeqProcs :
          (/\ Done(p)
           /\ req[p].member # NoMember
           /\ members[req[p].member].payment_type = "Oylik")
             => LET m == req[p].member
                    used == VisitsUsed(m, SnapAtt(p)) IN
                /\ used >= VisitCap => req[p].resp = PlanExpired
                /\ (/\ used = VisitCap - 1
                    /\ today <= ExpiryDay(m)
                    /\ ~ActiveOn(m, today, SnapAtt(p)))
                      => req[p].resp = Created

\* the twelfth check-in of the cycle was accepted
C25_TwelfthAccepted ==
    \E p \in SeqProcs :
       /\ Done(p)
       /\ req[p].member # NoMember
       /\ req[p].resp = Created
       /\ VisitsUsed(req[p].member, SnapAtt(p)) = VisitCap - 1
       /\ VisitsUsed(req[p].member, attendance) = VisitCap

C27_ExpiredAndExpiringExclusive ==
    /\ Called("classify")
          => ~(calc.expired = "True" /\ calc.expiring = "True")
    /\ (Called("member_stats") /\ calc.raised = "")
          => /\ calc.counted_expired \cap calc.counted_expiring = {}
             /\ calc.expired_members + calc.expiring_members
                   <= calc.total_members

\* a Monthly member with the visits used up, asked about on a day within
\* the threshold before the expiry date: expired, and so not expiring
C27_Witness ==
    /\ Called("classify")
    /\ PlanOf(calc.member) = "Oylik"
    /\ calc.visits >= VisitCap
    /\ calc.as_of <= ExpiryDay(calc.member)
    /\ calc.as_of >= ExpiryDay(calc.member) - calc.threshold
    /\ calc.expired = "True"
    /\ calc.expiring = "False"

\* the statistics counted one member as expired and the other as expiring
C27_StatsWitness ==
    /\ Called("member_stats")
    /\ calc.raised = ""
    /\ calc.expired_members = 1
    /\ calc.expiring_members = 1
    /\ calc.total_members = 2

\* the member's most recent active payment is dated today
RenewedToday(m) ==
    /\ MemberPayments(m) # {}
    /\ AnchorDay(m) = today

(***************************************************************************)
(* C28.  For a Monthly member whose most recent active payment is dated    *)
(* today (recorded after the member had become Expired by date or by the   *)
(* 12-visit cap), is_expired as of today is false, the visits being        *)
(* counted from the new anchor only, and a check-in today is not answered  *)
(* PlanExpired.                                                            *)
(***************************************************************************)
C28_RenewalEndsExpiry ==
    \A p \in SeqProcs :
       (/\ Done(p)
        /\ req[p].member # NoMember
        /\ members[req[p].member].payment_type = "Oylik"
        /\ snap[p][2] = payments
        /\ RenewedToday(req[p].member))
       => /\ is_expired(req[p].member, PyDate(today)) = "False"
          /\ req[p].resp # PlanExpired

\* a member whose cycle had ended by date paid today and then checked in:
\* the request ended in a TypeError
C28_RenewedThenCheckedIn ==
    \E p \in SeqProcs :
       /\ Done(p)
       /\ req[p].member # NoMember
       /\ members[req[p].member].payment_type = "Oylik"
       /\ today > members[req[p].member].created_at + MonthlyDays
       /\ snap[p][2] = payments
       /\ RenewedToday(req[p].member)
       /\ req[p].resp = ServerError("TypeError")

\* the member has a soft-deleted attendance of the day among the rows
DeletedOn(m, day, att) ==
    \E a \in att : a.member = m /\ ~a.state /\ a.attended_at = day

\* a check-in of an eligible member whose attendance of today was
\* soft-deleted, and who has no active one today, is accepted
CheckInAfterSoftDelete ==
    \A p \in SeqProcs :
       (/\ Done(p)
        /\ req[p].member # NoMember
        /\ ~ExpiredOn(req[p].member, today, SnapAtt(p))
        /\ DeletedOn(req[p].member, today, SnapAtt(p))
        /\ ~ActiveOn(req[p].member, today, SnapAtt(p)))
       => req[p].resp = Created

\* no step switches a row back to state True while the member has an
\* active row of the same day
NoReactivationBesideActive ==
    \A r \in attendance, q \in attendance' :
       (r.id = q.id /\ ~r.state /\ q.state)
          => ~ActiveOn(r.member, r.attended_at, attendance)

(***************************************************************************)
(* C29.  Uniqueness is scoped to active rows: once a member's attendance   *)
(* of today is soft-deleted a new check-in of that member today succeeds;  *)
(* and a soft-deleted attendance is not switched back to state True while  *)
(* the member has another active attendance of the same day, the rows      *)
(* staying as they were.                                                   *)
(***************************************************************************)
C29_UniquenessAmongActiveRows ==
    [][CheckInAfterSoftDelete' /\ NoReactivationBesideActive]_vars

\* the member checked in again after the first attendance of today was
\* soft-deleted, and the deleted row is still there beside the new one
C29_CheckedInAgain ==
    \E p \in SeqProcs :
       /\ Done(p)
       /\ req[p].resp = Created
       /\ DeletedOn(req[p].member, today, SnapAtt(p))
       /\ DeletedOn(req[p].member, today, attendance)
       /\ ActiveOn(req[p].member, today, attendance)

\* the day the eligibility check is made for: date.today()
EligibilityDay ==
    today

\* the day the duplicate check looks at: timezone.now().date()
DuplicateDay ==
    today - utcLag

(***************************************************************************)
(* C30.  A check-in that is answered Created has written one row whose     *)
(* attended_at is the day the eligibility check was made for and the day   *)
(* the duplicate check looked at, so the member had no active attendance   *)
(* of that day before.                                                     *)
(***************************************************************************)
C30_OneDatePerCheckIn ==
    \A p \in SeqProcs :
       (Done(p) /\ req[p].resp = Created)
          => \E a \in attendance \ SnapAtt(p) :
                /\ a.member = req[p].member
                /\ a.attended_at = EligibilityDay
                /\ a.attended_at = DuplicateDay
                /\ ~ActiveOn(a.member, a.attended_at, SnapAtt(p))

\* a second check-in of the day was accepted: the duplicate check looked at
\* the day before, and the member now has two active rows of today
C30_SecondRowOfTheDay ==
    \E p \in SeqProcs :
       /\ Done(p)
       /\ req[p].resp = Created
       /\ DuplicateDay # EligibilityDay
       /\ ActiveOn(req[p].member, today, SnapAtt(p))
       /\ \E a \in attendance \ SnapAtt(p) :
             a.member = req[p].member /\ a.state /\ a.attended_at = today

====
